---- MODULE Spec2Model ----
(***************************************************************************)
(* Model of the access-gate (gate.py) and of the decision service          *)
(* (server.py) that answers it over two MQTT topics.                       *)
(*                                                                         *)
(* Time is discrete; one tick is 0.1 s, the period of the gate's polling   *)
(* loops.  A time.sleep(d) lasts exactly d; every other statement takes no *)
(* time.  The two threads of the gate (the foreground loop of start() and  *)
(* the paho network thread that runs _on_mqtt_message) interleave freely   *)
(* at one instant.  Network and upstream latency are unbounded: a message  *)
(* stays in its topic queue for any number of ticks.                       *)
(*                                                                         *)
(* The fields ex, up and dup (in messages) and the variables exchange,    *)
(* hist and delivered are history variables: no statement of the code      *)
(* reads them.                                                             *)
(***************************************************************************)
EXTENDS Integers, Sequences, FiniteSets, TLC

\* ------------------------------------------------------------------ bounds
\* Calls of process_access the card holder makes.
MaxExchanges == 2
\* Requests published on the request topic by another gate.
MaxOther == 1
\* Messages published on the request topic by any client (service alone).
MaxInbound == 2
\* Redeliveries of a response by the broker.
MaxDup == 1

\* -------------------------------------------------------- program constants
\* gate.py:130  while ... timeout < 50
PollLimit == 50
\* gate.py:131  time.sleep(0.1)
PollTicks == 1
\* gate.py:159  time.sleep(3)
DwellTicks == 30
\* gate.py:205  time.sleep(1)
CooldownTicks == 10
\* gate.py:210  time.sleep(0.1)
IdleTicks == 1
\* gate.py:74-78  success melody, 0.1 + 0.1 + 0.2 s
SuccessToneTicks == 4
\* gate.py:83-85  error melody, 0.3 + 0.3 s
ErrorToneTicks == 6
\* gate.py:69  click, 0.05 s, played twice in wait_for_direction (100, 107/110)
SelectTicks == 1
\* server.py:56  if status == 200
HttpOk == 200

\* ------------------------------------------------------------------ values
\* A key that a JSON object does not have (dict.get finds nothing).
Absent == "<absent>"
\* Python's None (JSON null).
None == "<None>"

\* GATE_ID of the modelled gate and of another gate on the same topics.
ThisGate == "G1"
OtherGate == "G2"
Tokens == {"A1"}
Directions == {"in", "out"}

VARIABLES
  \* ---- gate.py, AccessGate
  waiting_for_server, \* self.waiting_for_server
  fg,                 \* position of the foreground thread (start / process_access);
                      \* "stopped" once start has returned
  fgTimer,            \* ticks left of the foreground thread's current sleep
  timeout,            \* local variable timeout of process_access
  rfid_id,            \* local variable rfid_id of start
  direction,          \* local variable direction of start
  ls,                 \* position of the network thread (_on_mqtt_message)
  lsTimer,            \* ticks left of the network thread's current sleep
  payload,            \* local variable payload of _on_mqtt_message
  display,            \* what update_display last drew: <<line1, line2>>
  led,                \* what set_led_strip last showed
  \* ---- broker
  topic_request,      \* messages published on TOPIC_REQUEST, not yet delivered
  topic_response,     \* messages published on TOPIC_RESPONSE, not yet delivered to this gate
  \* ---- server.py, Server (the single network thread of loop_forever)
  srv,                \* position of the service: "idle", "calling", "reply"
  request_data,       \* local variable request_data of on_message
  response,           \* what requests.post did (local variable response)
  decision,           \* local variable decision of on_message
  \* ---- upstream API
  apiCalls,           \* number of POSTs the service has issued
  \* ---- environment counters
  others,             \* requests published so far by other clients
  dups,               \* redeliveries so far
  \* ---- history
  exchange,           \* number of calls of process_access so far
  hist,               \* calls of handle_result since the current exchange began
  delivered           \* a response reached the listener inside the current wait window

fgVars == <<fg, fgTimer, timeout, rfid_id, direction>>
lsVars == <<ls, lsTimer, payload>>
outVars == <<display, led, hist>>
gateVars == <<waiting_for_server, fgVars, lsVars, outVars, exchange, delivered>>
srvVars == <<srv, request_data, response, decision>>
envVars == <<apiCalls, others, dups>>
netVars == <<topic_request, topic_response, srvVars, envVars>>
vars == <<waiting_for_server, fg, fgTimer, timeout, rfid_id, direction,
          ls, lsTimer, payload, display, led, topic_request, topic_response,
          srv, request_data, response, decision, apiCalls, others, dups,
          exchange, hist, delivered>>

\* ============================================================== server.py

\* dict.get(key, default) on a JSON object held as a record.
Get(obj, key, default) == IF obj[key] = Absent THEN default ELSE obj[key]

\* What a client can publish on the request topic.  kind: "bytes" is not
\* UTF-8, "text" is not JSON, "array" is JSON but no object, "object" is a
\* JSON object whose fields may be missing.
Payload(kind, rfid, gate, dir, ex) ==
  [kind |-> kind, rfid |-> rfid, gate_id |-> gate, direction |-> dir, ex |-> ex]

Malformed(kind) == Payload(kind, Absent, Absent, Absent, 0)

\* request_data before it is assigned.
NoRequest == Malformed("unset")

\* What requests.post can do.  kind "fail": it raises RequestException.
\* kind "http": a response with a status code and a body; body "invalid" is
\* not JSON, "array" is JSON but no object, "object" is a JSON object whose
\* "error" member is absent, no object ("nondict") or an object with or
\* without a "code".
Upstream(kind, status, body, error, code) ==
  [kind |-> kind, status |-> status, body |-> body, error |-> error, code |-> code]

TransportFailure == Upstream("fail", 0, "invalid", "absent", Absent)

\* response before requests.post has returned.
NoResponse == Upstream("unset", 0, "invalid", "absent", Absent)
HttpOf(status, body, error, code) == Upstream("http", status, body, error, code)

ErrorCodes == {"USER_BANNED", "USER_ALREADY_IN", "USER_ALREADY_OUT",
               "GATE_INACTIVE", "CARD_EXPIRED", Absent}

UpstreamResults ==
  {TransportFailure}
  \cup {HttpOf(s, "object", "absent", Absent) : s \in {200, 201, 204, 403, 500}}
  \cup {HttpOf(s, "invalid", "absent", Absent) : s \in {200, 204, 500}}
  \cup {HttpOf(s, "array", "absent", Absent) : s \in {200, 500}}
  \cup {HttpOf(s, "object", "nondict", Absent) : s \in {200, 403}}
  \cup {HttpOf(s, "object", "dict", c) : s \in {200, 403}, c \in ErrorCodes}

\* The results the gate protocol is explored with: one per outcome class
\* the gate tells apart (GRANTED, BANNED, any other reason).
UpstreamSample ==
  {HttpOf(200, "object", "absent", Absent),
   HttpOf(403, "object", "dict", "USER_BANNED"),
   TransportFailure}

Decision(status, reason, message, debug, gate) ==
  [status |-> status, reason |-> reason, message |-> message,
   debug |-> debug, gate_id |-> gate]

\* decision before it is assigned.
NoDecision == Decision(None, Absent, Absent, Absent, Absent)

\* server.py:71-78, the handler of the outer try: gate_id is echoed only
\* when the payload is a dict that holds a truthy gate_id.
ServerError(req) ==
  Decision("ERROR", "SERVER_ERROR", Absent, Absent,
           IF req.kind = "object" /\ req.gate_id \notin {Absent, None, ""}
           THEN req.gate_id ELSE Absent)

\* server.py:47-50: response.json(), {} when the body is not JSON.  The
\* value is the shape of resp_json: "array" or "object".
RespJson(up) == IF up.body = "invalid" THEN "object" ELSE up.body

\* server.py:59: resp_json.get("error", {}).get("code", "UNKNOWN"); "raise"
\* when one of the two receivers has no get (AttributeError).
ErrorCode(up) ==
  IF RespJson(up) # "object" THEN "raise"
  ELSE IF up.body = "invalid" \/ up.error = "absent" THEN "UNKNOWN"
  ELSE IF up.error = "nondict" THEN "raise"
  ELSE IF up.code = Absent THEN "UNKNOWN" ELSE up.code

\* server.py:56: the upstream response counts as a success.
IsSuccessStatus(status) == status = HttpOk

\* server.py:27-78; its parameter payload is req here.
get_access_decision(req, up) ==
  IF req.kind # "object" THEN ServerError(req)
  ELSE LET gate_id == Get(req, "gate_id", None) IN
    IF up.kind = "fail"
    THEN Decision("ERROR", "NETWORK_FAIL", Absent, "present", gate_id)
    ELSE IF IsSuccessStatus(up.status)
    THEN Decision("GRANTED", Absent, "Access Granted", Absent, gate_id)
    ELSE LET error_code == ErrorCode(up) IN
      IF error_code = "raise" THEN ServerError(req)
      ELSE IF error_code = "USER_BANNED"
      THEN Decision("DENIED", "BANNED", Absent, Absent, gate_id)
      ELSE IF error_code \in {"USER_ALREADY_IN", "USER_ALREADY_OUT"}
      THEN Decision("DENIED", "DIRECTION_ERROR", Absent, Absent, gate_id)
      ELSE IF error_code = "GATE_INACTIVE"
      THEN Decision("ERROR", "GATE_LOCKED", Absent, Absent, gate_id)
      ELSE Decision("DENIED", "UNKNOWN", Absent, "present", gate_id)

\* A service that repeats the call to the upstream API once.
UpstreamCallsRetry(req) == IF req.kind = "object" THEN 2 ELSE 0

\* server.py:33-44: requests.post is reached unless payload.get raises.
UpstreamCalls(req) == IF req.kind = "object" THEN 1 ELSE 0

\* server.py:87-90: decode and json.loads succeed.
Decodes(msg) == msg.kind \notin {"bytes", "text"}

\* A message on the response topic.  kind is as for a request; status,
\* reason and gate_id are the members of a JSON object.  The message is
\* tagged with the exchange of the request it answers (below 1: not a request
\* of this gate), with the upstream result it was mapped from and with
\* whether it is a second delivery.
Message(kind, status, reason, gate, ex, up) ==
  [kind |-> kind, status |-> status, reason |-> reason, gate_id |-> gate,
   ex |-> ex, up |-> up, dup |-> FALSE]

\* server.py:96: json.dumps(decision).
Wire(dec, ex, up) == Message("object", dec.status, dec.reason, dec.gate_id, ex, up)

\* payload of _on_mqtt_message before it is assigned.
NoPayload == Message("unset", None, Absent, Absent, 0, NoResponse)

\* server.py:85-93: a message of the request topic reaches on_message.  One
\* that does not decode is dropped (100-103); a JSON object goes on to
\* requests.post (44); any other JSON value makes get_access_decision raise
\* at line 33 and return from its handler without a call.
Server_on_message ==
  /\ srv = "idle" /\ topic_request # <<>>
  /\ LET msg == Head(topic_request) IN
       /\ topic_request' = Tail(topic_request)
       /\ IF ~Decodes(msg)
          THEN UNCHANGED <<srvVars, apiCalls>>
          ELSE /\ request_data' = msg
               /\ response' = NoResponse
               /\ apiCalls' = apiCalls + UpstreamCalls(msg)
               /\ IF UpstreamCalls(msg) = 1
                  THEN srv' = "calling" /\ decision' = NoDecision
                  ELSE srv' = "reply" /\ decision' = get_access_decision(msg, TransportFailure)
  /\ UNCHANGED <<topic_response, others, dups, gateVars>>

\* server.py:44-78: requests.post returns or raises; the decision is mapped.
Server_post_returns(up) ==
  /\ srv = "calling"
  /\ response' = up
  /\ decision' = get_access_decision(request_data, up)
  /\ srv' = "reply"
  /\ UNCHANGED <<request_data, topic_request, topic_response, envVars, gateVars>>

\* server.py:96-98: the decision is published; on_message returns.
Server_publish ==
  /\ srv = "reply"
  /\ topic_response' = Append(topic_response, Wire(decision, request_data.ex, response))
  /\ srv' = "idle"
  /\ request_data' = NoRequest /\ response' = NoResponse /\ decision' = NoDecision
  /\ UNCHANGED <<topic_request, envVars, gateVars>>

\* ================================================================ gate.py

\* A mapping that has no message for an empty reason.
ResultMessageGap(reason) ==
  IF reason = "BANNED" THEN "USER BANNED"
  ELSE IF reason = "DIRECTION_ERROR" THEN "ALREADY IN/OUT"
  ELSE IF reason = "" THEN ""
  ELSE "ACCESS DENIED"

\* gate.py:148-153
ResultMessage(reason) ==
  IF reason = "BANNED" THEN "USER BANNED"
  ELSE IF reason = "DIRECTION_ERROR" THEN "ALREADY IN/OUT"
  ELSE "ACCESS DENIED"

\* gate.py:142-157, update_display
ResultDisplay(status, reason) ==
  IF status = "GRANTED" THEN <<"ACCESS GRANTED", "Welcome!">>
  ELSE <<ResultMessage(reason), reason>>

\* gate.py:144, 156, set_led_strip
ResultLed(status) == IF status = "GRANTED" THEN "green" ELSE "red"

\* gate.py:145, 157, 159: the melody, then time.sleep(3)
ResultTicks(status) ==
  (IF status = "GRANTED" THEN SuccessToneTicks ELSE ErrorToneTicks) + DwellTicks

\* One call of handle_result: the thread, the arguments, and of the message
\* that caused it the gate_id, the exchange it answers, the upstream result
\* it was mapped from and whether it is a second delivery.
Call(by, status, reason, gate, ex, up, dup) ==
  [by |-> by, status |-> status, reason |-> reason, gate_id |-> gate,
   ex |-> ex, up |-> up, dup |-> dup]

\* gate.py:138-159: handle_result up to its sleep, on either thread.
handle_result(call) ==
  /\ display' = ResultDisplay(call.status, call.reason)
  /\ led' = ResultLed(call.status)
  /\ hist' = Append(hist, call)

\* gate.py:160 on the foreground thread, then the return to start (205).
handle_result_return_fg ==
  /\ fg = "result" /\ fgTimer = 0
  /\ waiting_for_server' = FALSE
  /\ fg' = "cooldown" /\ fgTimer' = CooldownTicks
  /\ UNCHANGED <<timeout, rfid_id, direction, lsVars, outVars, exchange, delivered, netVars>>

\* gate.py:160 on the network thread, then the return from _on_mqtt_message.
handle_result_return_ls ==
  /\ ls = "result" /\ lsTimer = 0
  /\ waiting_for_server' = FALSE
  /\ ls' = "idle" /\ payload' = NoPayload
  /\ UNCHANGED <<lsTimer, fgVars, outVars, exchange, delivered, netVars>>

\* gate.py:171: the listener's test of the flag.
Accepts == waiting_for_server

\* The foreground thread is between the publish (126) and the end of the
\* wait loop (130-132).
InWaitWindow == fg \in {"wait", "wait_sleep"}

\* gate.py:170: msg.payload.decode() and json.loads succeed.
Loads(msg) == msg.kind \notin {"bytes", "text"}

\* gate.py:172: payload has a get method; on any other JSON value the call
\* raises AttributeError, which line 173 catches.
HasGet(msg) == msg.kind = "object"

\* gate.py:168-174: the broker delivers the next response to the listener.
on_mqtt_message ==
  /\ ls = "idle" /\ topic_response # <<>>
  /\ fg # "stopped"
  /\ LET msg == Head(topic_response) IN
       /\ topic_response' = Tail(topic_response)
       /\ IF Loads(msg) /\ Accepts /\ HasGet(msg)
          THEN /\ payload' = msg
               /\ handle_result(Call("listener", Get(msg, "status", None),
                                     Get(msg, "reason", ""), msg.gate_id, msg.ex,
                                     msg.up, msg.dup))
               /\ ls' = "result"
               /\ lsTimer' = ResultTicks(Get(msg, "status", None))
          ELSE UNCHANGED <<lsVars, outVars>>
  /\ delivered' = (delivered \/ InWaitWindow)
  /\ UNCHANGED <<waiting_for_server, fgVars, exchange>>
  /\ UNCHANGED <<topic_request, srvVars, envVars>>

\* gate.py:185-198 with a card on the reader: the idle prompt, read_no_block,
\* then the prompt, click and LED of wait_for_direction (99-103).
start_card(id) ==
  /\ fg = "idle" /\ exchange < MaxExchanges
  /\ rfid_id' = id
  /\ display' = <<"Select Mode:", "Grn:IN | Red:OUT">>
  /\ led' = "blue"
  /\ fg' = "select" /\ fgTimer' = SelectTicks
  /\ UNCHANGED <<waiting_for_server, timeout, direction, lsVars, hist, exchange, delivered, netVars>>

\* gate.py:185-194, 210 with no card: the idle prompt, then time.sleep(0.1).
start_no_card ==
  /\ fg = "idle"
  /\ display' = <<"Gate Ready", "Place Card...">>
  /\ led' = "off"
  /\ fg' = "idle_sleep" /\ fgTimer' = IdleTicks
  /\ UNCHANGED <<waiting_for_server, timeout, rfid_id, direction, lsVars, hist,
                 exchange, delivered, netVars>>

\* gate.py:210 -> 185
start_loop ==
  /\ fg = "idle_sleep" /\ fgTimer = 0
  /\ fg' = "idle"
  /\ UNCHANGED <<waiting_for_server, fgTimer, timeout, rfid_id, direction, lsVars,
                 outVars, exchange, delivered, netVars>>

\* gate.py:105-111: a button is pressed; wait_for_direction returns.
wait_for_direction(d) ==
  /\ fg = "select" /\ fgTimer = 0
  /\ direction' = d
  /\ fg' = "begin"
  /\ UNCHANGED <<waiting_for_server, fgTimer, timeout, rfid_id, lsVars, outVars,
                 exchange, delivered, netVars>>

\* gate.py:117-119
process_access_begin ==
  /\ fg = "begin"
  /\ waiting_for_server' = TRUE
  /\ display' = <<"Verifying...", "Please wait">>
  /\ led' = "yellow"
  /\ exchange' = exchange + 1
  /\ hist' = <<>>
  /\ delivered' = FALSE
  /\ fg' = "publish"
  /\ UNCHANGED <<fgTimer, timeout, rfid_id, direction, lsVars, netVars>>

\* gate.py:121-129.  rfid_id and direction are not read after the publish
\* and are forgotten there.
process_access_publish ==
  /\ fg = "publish"
  /\ topic_request' =
       Append(topic_request, Payload("object", rfid_id, ThisGate, direction, exchange))
  /\ timeout' = 0
  /\ rfid_id' = None /\ direction' = None
  /\ fg' = "wait"
  /\ UNCHANGED <<waiting_for_server, fgTimer, lsVars, outVars, exchange, delivered>>
  /\ UNCHANGED <<topic_response, srvVars, envVars>>

\* gate.py:130: the loop condition.
StillWaiting(t) == waiting_for_server /\ t < PollLimit

\* gate.py:130-131: the first test of the loop condition.
process_access_poll ==
  /\ fg = "wait"
  /\ IF StillWaiting(timeout)
     THEN fg' = "wait_sleep" /\ fgTimer' = PollTicks
     ELSE fg' = "after_wait" /\ fgTimer' = 0
  /\ UNCHANGED <<waiting_for_server, timeout, rfid_id, direction, lsVars, outVars,
                 exchange, delivered, netVars>>

\* gate.py:132, 130-131: the sleep ends, timeout += 1, the condition again.
process_access_wake ==
  /\ fg = "wait_sleep" /\ fgTimer = 0
  /\ timeout' = timeout + 1
  /\ IF StillWaiting(timeout + 1)
     THEN fg' = "wait_sleep" /\ fgTimer' = PollTicks
     ELSE fg' = "after_wait" /\ fgTimer' = 0
  /\ UNCHANGED <<waiting_for_server, rfid_id, direction, lsVars, outVars,
                 exchange, delivered, netVars>>

\* gate.py:134: the test after the loop.
TimedOut == waiting_for_server

\* gate.py:134-136: after the loop; on a timeout handle_result("ERROR", "Timeout").
process_access_end ==
  /\ fg = "after_wait"
  /\ IF TimedOut
     THEN /\ handle_result(Call("foreground", "ERROR", "Timeout", Absent, exchange,
                                 NoResponse, FALSE))
          /\ fg' = "result" /\ fgTimer' = ResultTicks("ERROR")
     ELSE /\ fg' = "cooldown" /\ fgTimer' = CooldownTicks
          /\ UNCHANGED outVars
  /\ UNCHANGED <<waiting_for_server, timeout, rfid_id, direction, lsVars,
                 exchange, delivered, netVars>>

\* gate.py:205 -> 210
start_cooldown_done ==
  /\ fg = "cooldown" /\ fgTimer = 0
  /\ fg' = "idle_sleep" /\ fgTimer' = IdleTicks
  /\ UNCHANGED <<waiting_for_server, timeout, rfid_id, direction, lsVars, outVars,
                 exchange, delivered, netVars>>

\* gate.py:192, 207-210: read_no_block raises an Exception; the handler of
\* the inner try logs it and the loop goes on.
start_read_raises ==
  /\ fg = "idle"
  /\ display' = <<"Gate Ready", "Place Card...">>
  /\ led' = "off"
  /\ fg' = "idle_sleep" /\ fgTimer' = IdleTicks
  /\ UNCHANGED <<waiting_for_server, timeout, rfid_id, direction, lsVars, hist,
                 exchange, delivered, netVars>>

\* The foreground thread is about to call the display, the LED strip, the
\* buzzer, the buttons or the MQTT client inside the inner try: in
\* wait_for_direction (99-110), at the publish (126) or in handle_result on a
\* timeout (136, 143-157).
InsideTry ==
  \/ fg \in {"select", "publish"}
  \/ fg = "after_wait" /\ TimedOut

\* gate.py:198-202, 207-210: such a call raises an Exception; the handler of
\* the inner try logs it and the loop goes on.  Nothing else is undone.
start_except ==
  /\ InsideTry
  /\ fg' = "idle_sleep" /\ fgTimer' = IdleTicks
  /\ rfid_id' = None /\ direction' = None
  /\ UNCHANGED <<waiting_for_server, timeout, lsVars, outVars, exchange, delivered,
                 netVars>>

\* gate.py:187-188, 212-215, 217-223: update_display or set_led_strip of the
\* idle prompt raises an Exception; the calls are outside the inner try and
\* the outer one catches KeyboardInterrupt only, so cleanup runs and the
\* exception leaves start.
start_prompt_raises ==
  /\ fg = "idle"
  /\ display' = <<"", "">>
  /\ led' = "off"
  /\ fg' = "stopped"
  /\ UNCHANGED <<waiting_for_server, fgTimer, timeout, rfid_id, direction, lsVars,
                 hist, exchange, delivered, netVars>>

\* ============================================================ environment

\* The foreground thread is inside time.sleep, or blocked on the buttons.
FgSleeping ==
  \/ fg = "select"
  \/ fg \in {"idle_sleep", "wait_sleep", "result", "cooldown"} /\ fgTimer > 0

\* The network thread is inside time.sleep, or blocked on the socket.
LsSleeping == ls = "idle" \/ lsTimer > 0

\* The service is blocked on the socket or inside requests.post.
SrvSleeping == srv \in {"idle", "calling"}

Dec(t) == IF t > 0 THEN t - 1 ELSE 0

\* 0.1 s passes.
Tick ==
  /\ FgSleeping /\ LsSleeping /\ SrvSleeping
  /\ fgTimer' = Dec(fgTimer)
  /\ lsTimer' = Dec(lsTimer)
  /\ UNCHANGED <<waiting_for_server, fg, timeout, rfid_id, direction, ls, payload,
                 outVars, exchange, delivered, netVars>>

\* Another gate (gate.py:121-126 with its own GATE_ID) publishes a request.
OtherGatePublish(id, d) ==
  /\ others < MaxOther
  /\ others' = others + 1
  /\ topic_request' =
       Append(topic_request, Payload("object", id, OtherGate, d, 0 - others))
  /\ UNCHANGED <<topic_response, srvVars, apiCalls, dups>>
  /\ UNCHANGED gateVars

\* What any client can put on the request topic.  The gate_id of an object
\* is a gate's, the empty string (a gate started with GATE_ID="") or missing.
InboundPayloads ==
  {Malformed("bytes"), Malformed("text"), Malformed("array")}
  \cup {Payload("object", r, g, d, 0) :
          r \in Tokens \cup {Absent},
          g \in {ThisGate, "", Absent},
          d \in Directions \cup {Absent}}

\* Any client publishes on the request topic; the message is tagged like
\* another gate's.
ClientPublish(p) ==
  /\ others < MaxInbound
  /\ others' = others + 1
  /\ topic_request' = Append(topic_request, [p EXCEPT !.ex = 0 - others])
  /\ UNCHANGED <<topic_response, srvVars, apiCalls, dups>>
  /\ UNCHANGED gateVars

\* The status and reason members of an object a client can put on the
\* response topic: the outcomes of the wire contract, a status outside the
\* enumeration or none, and with DENIED and ERROR every reason of the closed
\* vocabulary, no reason, an empty one and one outside the vocabulary.
Reasons == {"BANNED", "DIRECTION_ERROR", "GATE_LOCKED", "NETWORK_FAIL",
            "SERVER_ERROR", "UNKNOWN", "Timeout", "NO_SUCH_REASON", "", Absent}

InboundMembers ==
  {<<"GRANTED", Absent>>, <<"MAYBE", Absent>>, <<Absent, Absent>>}
  \cup ({"DENIED", "ERROR"} \X Reasons)

\* What any client can put on the response topic.
InboundResponses ==
  {Message(k, Absent, Absent, Absent, 0, NoResponse) : k \in {"bytes", "text", "array"}}
  \cup {Message("object", m[1], m[2], g, 0, NoResponse) :
          m \in InboundMembers, g \in {ThisGate}}

\* The broker delivers the response the listener is handling a second time.
Redeliver ==
  /\ dups < MaxDup
  /\ ls = "result"
  /\ dups' = dups + 1
  /\ topic_response' = <<[payload EXCEPT !.dup = TRUE]>> \o topic_response
  /\ UNCHANGED <<topic_request, srvVars, apiCalls, others>>
  /\ UNCHANGED gateVars

\* ========================================================= specifications

\* gate.py:20-23 and server.py:13-25: the two processes after construction,
\* with nothing on the request topic.
Constructed ==
  /\ waiting_for_server = FALSE
  /\ fg = "idle" /\ fgTimer = 0
  /\ timeout = 0
  /\ rfid_id = None /\ direction = None
  /\ ls = "idle" /\ lsTimer = 0 /\ payload = NoPayload
  /\ display = <<"", "">> /\ led = "off"
  /\ topic_request = <<>>
  /\ srv = "idle"
  /\ request_data = NoRequest /\ response = NoResponse /\ decision = NoDecision
  /\ apiCalls = 0 /\ others = 0 /\ dups = 0
  /\ exchange = 0 /\ hist = <<>> /\ delivered = FALSE

\* The same, with nothing on the response topic either.
Init == Constructed /\ topic_response = <<>>

GateNext ==
  \/ \E id \in Tokens : start_card(id)
  \/ start_no_card
  \/ start_loop
  \/ \E d \in Directions : wait_for_direction(d)
  \/ process_access_begin
  \/ process_access_publish
  \/ process_access_poll
  \/ process_access_wake
  \/ process_access_end
  \/ handle_result_return_fg
  \/ start_cooldown_done
  \/ on_mqtt_message
  \/ handle_result_return_ls
  \/ Tick

ServerNext(results) ==
  \/ Server_on_message
  \/ \E up \in results : Server_post_returns(up)
  \/ Server_publish

\* One gate and the service.
Next ==
  \/ GateNext
  \/ ServerNext(UpstreamSample)

Spec == Init /\ [][Next]_vars

\* The same, with another gate publishing on the shared request topic.
NextShared ==
  \/ Next
  \/ \E id \in Tokens, d \in Directions : OtherGatePublish(id, d)

SpecShared == Init /\ [][NextShared]_vars

\* The same as Spec, with a broker that may deliver a response twice.
NextDup == Next \/ Redeliver

SpecDup == Init /\ [][NextDup]_vars

\* The service alone, fed by any client.
NextService ==
  \/ \E p \in InboundPayloads : ClientPublish(p)
  \/ ServerNext(UpstreamResults)

SpecService == Init /\ [][NextService]_vars

\* The messages of a client that json.loads turns into a dict.
RequestObjects == {p \in InboundPayloads : p.kind = "object"}

\* The service alone, fed with JSON objects only.
NextRequests ==
  \/ \E p \in RequestObjects : ClientPublish(p)
  \/ ServerNext(UpstreamResults)

SpecRequests == Init /\ [][NextRequests]_vars

\* The gate alone, started with a message a client has published on the
\* response topic; the broker delivers it at any time.
InitInbound ==
  /\ Constructed
  /\ \E m \in InboundResponses : topic_response = <<m>>

SpecInbound == InitInbound /\ [][GateNext]_vars

\* One gate and the service, with calls of the gate's foreground thread
\* that may raise.
NextFaults ==
  \/ Next
  \/ start_read_raises
  \/ start_except
  \/ start_prompt_raises

SpecFaults == Init /\ [][NextFaults]_vars

\* ================================================================= claims

\* The calls of handle_result of the current exchange made by one thread.
CallsBy(thread) == {i \in 1..Len(hist) : hist[i].by = thread}

\* The foreground thread is in AWAITING_DECISION: from the flag being set
\* (117) to the test that follows the wait loop (134).
AwaitingDecision == fg \in {"publish", "wait", "wait_sleep", "after_wait"}

\* A step of _on_mqtt_message: the listener takes a response off the topic.
Delivery == topic_response # <<>> /\ topic_response' = Tail(topic_response)

\* C1: when an outcome reaches the listener inside the wait window and is
\* handed to handle_result, that call is the only call of handle_result of
\* the exchange: the foreground thread adds no ERROR/Timeout.
C1_DeliveredOutcomeOnly ==
  (delivered /\ hist # <<>> /\ hist[1].by = "listener") => Len(hist) = 1

\* C2: after the foreground thread has rendered ERROR/Timeout, no response is
\* handed to handle_result before the next exchange begins.
C2_LateOutcomeDiscarded ==
  \A i \in CallsBy("foreground") : \A j \in CallsBy("listener") : j < i

\* C3: when process_access has returned (the cool-down of line 205), at
\* least one outcome has been rendered for the exchange.
C3_ExchangeRendersOutcome ==
  fg = "cooldown" => hist # <<>>

\* C4: an outcome the listener accepts answers the request of the exchange
\* in progress.
C4_OutcomeOfSameExchange ==
  \A i \in CallsBy("listener") : hist[i].ex = exchange

\* C5: an outcome the listener accepts was produced for a request of this
\* gate: it carries this gate's gate_id.
C5_OutcomeOfThisGate ==
  \A i \in CallsBy("listener") : hist[i].gate_id = ThisGate

\* C6: a response delivered while the foreground thread is not in
\* AWAITING_DECISION changes neither the listener's position, nor the
\* display, the LED, the calls of handle_result or the waiting flag.
C6_DiscardedOutsideAwaiting ==
  [][(Delivery /\ ~AwaitingDecision) =>
       UNCHANGED <<ls, lsTimer, payload, display, led, hist, waiting_for_server>>]_vars

\* C7: the second delivery of an outcome that was handed to handle_result is
\* never handed to handle_result.
C7_SecondDeliveryDiscarded ==
  \A i \in CallsBy("listener") : ~hist[i].dup

\* C8: when process_access has returned and no response reached the listener
\* inside the wait window, the foreground thread has rendered ERROR/Timeout.
C8_TimeoutWithoutResponse ==
  (fg = "cooldown" /\ ~delivered) =>
    \E i \in CallsBy("foreground") :
      hist[i].status = "ERROR" /\ hist[i].reason = "Timeout"

\* The upstream contract: success is a 200-class response.
IsSuccess(up) == up.kind = "http" /\ up.status \in 200..299

\* The error code of a failure response that is a JSON object with an
\* "error" object; "none" when there is no such code to read.
CodeOf(up) ==
  IF up.body = "object" /\ up.error = "dict" /\ up.code # Absent THEN up.code ELSE "none"

\* The outcomes the table of the Decision Mapper allows for an upstream
\* result, as <<status, reason>>.  A body without a readable error code may
\* count as a missing code or as an internal failure of the mapping.
TableAllows(up) ==
  IF up.kind = "fail" THEN {<<"ERROR", "NETWORK_FAIL">>}
  ELSE IF IsSuccess(up) THEN {<<"GRANTED", Absent>>}
  ELSE IF CodeOf(up) = "USER_BANNED" THEN {<<"DENIED", "BANNED">>}
  ELSE IF CodeOf(up) \in {"USER_ALREADY_IN", "USER_ALREADY_OUT"}
  THEN {<<"DENIED", "DIRECTION_ERROR">>}
  ELSE IF CodeOf(up) = "GATE_INACTIVE" THEN {<<"ERROR", "GATE_LOCKED">>}
  ELSE IF CodeOf(up) = "none" /\ (up.body = "array" \/ up.error = "nondict")
  THEN {<<"DENIED", "UNKNOWN">>, <<"ERROR", "SERVER_ERROR">>}
  ELSE {<<"DENIED", "UNKNOWN">>}

\* C9: the decision the service is about to publish for a request object is
\* the one the table assigns to the upstream result.
C9_MapperFollowsTable ==
  (srv = "reply" /\ request_data.kind = "object") =>
    <<decision.status, decision.reason>> \in TableAllows(response)

\* An inbound message parses into an AccessRequest: a JSON object with the
\* three fields.
IsAccessRequest(msg) ==
  /\ msg.kind = "object"
  /\ msg.rfid # Absent /\ msg.gate_id # Absent /\ msg.direction # Absent

\* C10: the service goes on to an upstream call or to a reply only for a
\* message that parses into an AccessRequest.
C10_MalformedRequestDropped ==
  srv \in {"calling", "reply"} => IsAccessRequest(request_data)

\* The number of requests on_message has taken off the request topic.
Taken == others - Len(topic_request)

\* The tag of the k-th request the clients published (k from 0).
RequestTag(k) == 0 - k

\* The published responses that answer the request with a tag.
ResponsesTo(tag) == {i \in 1..Len(topic_response) : topic_response[i].ex = tag}

\* on_message is still working on the request with a tag.
InProgress(tag) == srv # "idle" /\ request_data.ex = tag

\* C11: the service has issued one upstream call for each request object it
\* has taken, so none is retried; each request that has been dealt with has
\* exactly one published response, one still in progress has none; and the
\* response to a request whose call failed or timed out is ERROR/NETWORK_FAIL.
C11_OneCallOneResponse ==
  /\ apiCalls = Taken
  /\ \A k \in 0..(Taken - 1) :
       Cardinality(ResponsesTo(RequestTag(k))) =
         IF InProgress(RequestTag(k)) THEN 0 ELSE 1
  /\ \A i \in 1..Len(topic_response) :
       topic_response[i].up.kind = "fail" =>
         /\ topic_response[i].status = "ERROR"
         /\ topic_response[i].reason = "NETWORK_FAIL"
  /\ (srv = "reply" /\ response.kind = "fail") =>
       (decision.status = "ERROR" /\ decision.reason = "NETWORK_FAIL")

\* Two requests were answered, one of them after a failed call.
C11_Witness ==
  /\ apiCalls = 2 /\ srv = "idle" /\ Len(topic_response) = 2
  /\ \E i \in 1..2 : topic_response[i].up.kind = "fail"

\* A message of the response topic parses into an AccessOutcome: a JSON
\* object whose status is one of the three of the enumeration.
IsAccessOutcome(msg) ==
  msg.kind = "object" /\ msg.status \in {"GRANTED", "DENIED", "ERROR"}

\* C12: no message that fails to parse into an AccessOutcome is handed to
\* handle_result: every call the listener makes has a status of the
\* enumeration.
C12_MalformedResponseDropped ==
  \A i \in CallsBy("listener") : hist[i].status \in {"GRANTED", "DENIED", "ERROR"}

\* C13: start never returns: whatever raises, the main loop is still running.
C13_MainLoopSurvives == fg # "stopped"

\* What the gate shows on the first line for the outcome the Decision Mapper
\* assigns to an upstream result.
RenderingOf(up) ==
  IF up.kind = "http" /\ IsSuccess(up) THEN "ACCESS GRANTED"
  ELSE IF up.kind = "http" /\ CodeOf(up) = "USER_BANNED" THEN "USER BANNED"
  ELSE IF up.kind = "http" /\ CodeOf(up) \in {"USER_ALREADY_IN", "USER_ALREADY_OUT"}
  THEN "ALREADY IN/OUT"
  ELSE "ACCESS DENIED"

\* The response to the request of the current exchange reached the listener
\* inside the wait window and was handed to handle_result, and the exchange
\* is not over.
AnsweredInTime ==
  /\ delivered /\ hist # <<>>
  /\ hist[1].by = "listener" /\ hist[1].ex = exchange
  /\ fg \in {"wait", "wait_sleep", "after_wait", "result", "cooldown"}

\* C14: when the response to the request of the exchange was delivered inside
\* the wait window, the gate shows what the table assigns to the upstream
\* result of that request, and that outcome is the only one rendered for the
\* exchange.
C14_EndToEndRendering ==
  AnsweredInTime =>
    (Len(hist) = 1 /\ display[1] = RenderingOf(hist[1].up))

\* C15: every step that changes waiting_for_server is a step of the
\* foreground thread; no step of the network thread writes the flag.
C15_FlagWrittenByForeground ==
  [][waiting_for_server' # waiting_for_server => (fg' # fg /\ ls' = ls)]_vars

\* C16: the outcome the service is about to publish for an AccessRequest
\* carries the gate_id of that request, whatever branch of the mapper
\* produced it.
C16_GateIdEchoed ==
  (srv = "reply" /\ IsAccessRequest(request_data)) =>
    decision.gate_id = request_data.gate_id

\* C17: the decision for a request object whose upstream call returned a
\* response is GRANTED exactly when the status code is one of 200..299.
C17_SuccessIs2xx ==
  (srv = "reply" /\ request_data.kind = "object" /\ response.kind = "http") =>
    (decision.status = "GRANTED" <=> response.status \in 200..299)

\* The table of the reason-to-message mapping.
MessageFor(reason) ==
  CASE reason = "BANNED" -> "USER BANNED"
    [] reason = "DIRECTION_ERROR" -> "ALREADY IN/OUT"
    [] OTHER -> "ACCESS DENIED"

\* C18: every call of handle_result with a status other than GRANTED draws
\* the message the table gives for its reason, whatever the reason is (of
\* the closed vocabulary, absent, empty or unknown), and the message is not
\* empty.
C18_ReasonMessageTotal ==
  [][(hist' # hist /\ hist' # <<>>) =>
       LET call == hist'[Len(hist')] IN
         call.status # "GRANTED" =>
           /\ display' = <<MessageFor(call.reason), call.reason>>
           /\ display'[1] # ""]_vars

\* The listener has called handle_result for a denial or an error whose
\* reason is outside the vocabulary or empty, and the message is on display.
C18_Witness ==
  /\ \E i \in CallsBy("listener") :
       hist[i].reason \in {"NO_SUCH_REASON", ""} /\ hist[i].status \in {"DENIED", "ERROR"}
  /\ ls = "result" /\ display[1] = "ACCESS DENIED"

\* C19: a response to the request of the current exchange that is delivered
\* inside the wait window, before any timeout has fired, finds the flag true:
\* it is handed to handle_result, not dropped as "not waiting".
C19_ResponseFindsFlagSet ==
  [][(Delivery /\ InWaitWindow /\ Head(topic_response).ex = exchange) =>
       (waiting_for_server /\ hist' = Append(hist, hist'[Len(hist')]))]_vars

\* C20: whenever the foreground thread is in IDLE (the prompt and the sleep
\* of the loop) or in DIRECTION_SELECT (up to the call of process_access),
\* the flag is false and the network thread is not inside handle_result.
C20_QuietBetweenExchanges ==
  fg \in {"idle", "idle_sleep", "select", "begin"} =>
    (~waiting_for_server /\ ls = "idle")

====
